---- MODULE Spec2Model ----
(***************************************************************************)
(* The WebSocket audio gateway of src/main.py (websocket_endpoint) and its *)
(* client (src/client.py), as a state machine.                             *)
(*                                                                         *)
(* One handler coroutine runs per connection.  Every `await` of the        *)
(* handler is one step; the statements between two awaits run atomically   *)
(* (asyncio never preempts a coroutine between awaits).  The client and    *)
(* the transport are the environment: the client sends binary or text      *)
(* frames, reads what the server wrote, closes gracefully or disappears.   *)
(***************************************************************************)
EXTENDS Integers, Sequences, FiniteSets, TLC

\* The connections of the model; Spec runs the first one alone.
Conns == {"c1", "c2"}
Solo == {"c1"}

\* Number of data frames a client sends on one connection.
MaxFrames == 2

\* Binary payloads a client sends: the two of client.py (lines 12 and 17)
\* and the empty one.
Payloads == {<< >>, <<16, 32, 48>>, <<0, 1, 2, 3, 4>>}

\* The max-chunk-size of the specification (its section 4.1; main.py sets
\* none), in bytes.
MaxChunkSize == 4

\* Number of data frames a client sends on one connection when two
\* connections are served at once.
MaxServedFrames == 1

\* Number of plain HTTP requests made.
MaxRequests == 2

\* Payload of the text frames a client sends.
ControlText == "ping"

VARIABLES
    pc,      \* pc[c]: where the handler of connection c stands
    data,    \* data[c]: the handler's local `data` (Optional[bytes])
    err,     \* err[c]: str(e) of the exception caught at line 84
    inq,     \* inq[c]: ASGI events of c the handler has not received yet
    csent,   \* csent[c]: the data frames the client has sent, in order
    writes,  \* writes[c]: the handler's send_text/close calls on c, in order,
             \*   each with whether the transport took the frame
    crecv,   \* crecv[c]: how many of the frames written the client has read
    link,    \* link[c]: state of the transport of c
    http     \* the responses to the plain HTTP requests, in order

vars == <<pc, data, err, inq, csent, writes, crecv, link, http>>

-----------------------------------------------------------------------------
(* Values *)

\* Optional[bytes]: the type of `data` at line 72.
None == [some |-> FALSE]
Some(b) == [some |-> TRUE, val |-> b]

\* ASGI events the server hands to websocket.receive_bytes().
BytesEvent(b) == [type |-> "websocket.receive", bytes |-> b]
TextEvent(t) == [type |-> "websocket.receive", text |-> t]
DisconnectEvent == [type |-> "websocket.disconnect"]

\* Frames the server writes.
TextFrame(t) == [type |-> "websocket.send", text |-> t]
CloseFrame(code, reason) == [type |-> "websocket.close", code |-> code, reason |-> reason]

\* Line 67.
WelcomeText == "Connection established. Send audio data as binary messages."

\* A bug of lines 76-77: the count is off by one.
ResponseMsgOffByOne(d) == "Received " \o ToString(Len(d) + 1) \o " bytes of audio data."

\* Lines 76-77: chunk_size = len(data); the f-string of the acknowledgment.
ResponseMsg(d) == "Received " \o ToString(Len(d)) \o " bytes of audio data."

\* Line 86: error_msg = f"An error occurred: {str(e)}".
ErrorMsg(e) == "An error occurred: " \o e

\* Line 88: websocket.close(code=1011, reason="Internal server error").
ErrorCloseCode == 1011
ErrorCloseReason == "Internal server error"
ErrorClose == CloseFrame(ErrorCloseCode, ErrorCloseReason)

\* str(e) of the exceptions a text frame raises: message["bytes"] of a
\* message without that key (KeyError), or len(None) at line 76 when the
\* server delivers the message with bytes = None (TypeError).
KeyErrorMsg == "'bytes'"
TypeErrorMsg == "object of type 'NoneType' has no len()"
\* str(e) of a write on a connection that is gone, when the framework does
\* not raise WebSocketDisconnect for it.
SendErrorMsg == "Cannot call \"send\" once a close message has been sent."

\* What a write on a connection that is gone raises: WebSocketDisconnect or
\* another exception, depending on the framework's version.
SendFailures == {"WebSocketDisconnect", "Exception"}

-----------------------------------------------------------------------------
(* Initial state: no connection yet. *)

Init ==
    /\ pc = [c \in Conns |-> "idle"]
    /\ data = [c \in Conns |-> None]
    /\ err = [c \in Conns |-> ""]
    /\ inq = [c \in Conns |-> << >>]
    /\ csent = [c \in Conns |-> << >>]
    /\ writes = [c \in Conns |-> << >>]
    /\ crecv = [c \in Conns |-> 0]
    /\ link = [c \in Conns |-> "none"]
    /\ http = << >>

-----------------------------------------------------------------------------
(* The transport *)

\* A write (send_text or close) succeeds while the connection is open; once
\* the client has closed or is gone, or the server has closed, it raises.
Writable(c) == link[c] = "open"

\* The handler hands frame f to the transport.
Write(c, f) ==
    writes' = [writes EXCEPT ![c] = Append(@, [frame |-> f, ok |-> Writable(c)])]

\* The frames the transport took, in order: what the client can read.
Sent(c) ==
    LET taken == SelectSeq(writes[c], LAMBDA w : w.ok)
    IN  [k \in 1..Len(taken) |-> taken[k].frame]

-----------------------------------------------------------------------------
(* The client and the transport *)

\* client.py line 6: websockets.connect(uri); the framework starts the
\* handler of the /ws route for the upgrade request.
ClientConnect(c) ==
    /\ link[c] = "none"
    /\ pc[c] = "idle"
    /\ link' = [link EXCEPT ![c] = "handshake"]
    /\ pc' = [pc EXCEPT ![c] = "accept"]
    /\ UNCHANGED <<data, err, inq, csent, writes, crecv>>
    /\ UNCHANGED http

\* client.py lines 12 and 17: websocket.send(<bytes>).
ClientSendBytes(c, b) ==
    /\ link[c] = "open"
    /\ Len(csent[c]) < MaxFrames
    /\ inq' = [inq EXCEPT ![c] = Append(@, BytesEvent(b))]
    /\ csent' = [csent EXCEPT ![c] = Append(@, BytesEvent(b))]
    /\ UNCHANGED <<pc, data, err, writes, crecv, link>>
    /\ UNCHANGED http

\* A client sending a text frame (websocket.send(<str>)).
ClientSendText(c) ==
    /\ link[c] = "open"
    /\ Len(csent[c]) < MaxFrames
    /\ inq' = [inq EXCEPT ![c] = Append(@, TextEvent(ControlText))]
    /\ csent' = [csent EXCEPT ![c] = Append(@, TextEvent(ControlText))]
    /\ UNCHANGED <<pc, data, err, writes, crecv, link>>
    /\ UNCHANGED http

\* client.py lines 8, 13 and 18: websocket.recv().
ClientRecv(c) ==
    /\ link[c] \in {"open", "server_closed"}
    /\ crecv[c] < Len(Sent(c))
    /\ crecv' = [crecv EXCEPT ![c] = @ + 1]
    /\ UNCHANGED <<pc, data, err, inq, csent, writes, link>>
    /\ UNCHANGED http

\* client.py line 22: websocket.close(), a close frame.
ClientClose(c) ==
    /\ link[c] = "open"
    /\ link' = [link EXCEPT ![c] = "client_closed"]
    /\ inq' = [inq EXCEPT ![c] = Append(@, DisconnectEvent)]
    /\ UNCHANGED <<pc, data, err, csent, writes, crecv>>
    /\ UNCHANGED http

\* The client disappears without a close frame (transport reset).
ClientAbort(c) ==
    /\ link[c] = "open"
    /\ link' = [link EXCEPT ![c] = "reset"]
    /\ inq' = [inq EXCEPT ![c] = Append(@, DisconnectEvent)]
    /\ UNCHANGED <<pc, data, err, csent, writes, crecv>>
    /\ UNCHANGED http

-----------------------------------------------------------------------------
(* The handler: websocket_endpoint, main.py lines 53-88 *)

\* Line 66: await websocket.accept().
Accept(c) ==
    /\ pc[c] = "accept"
    /\ link[c] = "handshake"
    /\ link' = [link EXCEPT ![c] = "open"]
    /\ pc' = [pc EXCEPT ![c] = "welcome"]
    /\ UNCHANGED <<data, err, inq, csent, writes, crecv>>
    /\ UNCHANGED http

\* A bug of line 67: the welcome is never written.
SendWelcomeSkipped(c) ==
    /\ pc[c] = "welcome"
    /\ pc' = [pc EXCEPT ![c] = "receive"]
    /\ UNCHANGED <<data, err, inq, csent, writes, crecv, link>>
    /\ UNCHANGED http

\* Line 67: await websocket.send_text(<welcome>).  The call is outside the
\* try: a write that fails leaves the handler with the exception.
SendWelcome(c) ==
    /\ pc[c] = "welcome"
    /\ Write(c, TextFrame(WelcomeText))
    /\ pc' = [pc EXCEPT ![c] = IF Writable(c) THEN "receive" ELSE "raised"]
    /\ UNCHANGED <<data, err, inq, csent, crecv, link>>
    /\ UNCHANGED http

\* A bug of lines 81-83: the handler closes the connection on a disconnect.
ReceiveBytesCloseOnDisconnect(c, m) ==
    \/ /\ m.type = "websocket.disconnect"
       /\ pc' = [pc EXCEPT ![c] = "error_close"]
       /\ UNCHANGED <<data, err>>
    \/ /\ m.type = "websocket.receive"
       /\ "bytes" \in DOMAIN m
       /\ data' = [data EXCEPT ![c] = Some(m.bytes)]
       /\ pc' = [pc EXCEPT ![c] = "process"]
       /\ UNCHANGED err
    \/ /\ m.type = "websocket.receive"
       /\ "bytes" \notin DOMAIN m
       /\ err' = [err EXCEPT ![c] = KeyErrorMsg]
       /\ pc' = [pc EXCEPT ![c] = "error_send"]
       /\ UNCHANGED data

\* A bug of line 72: `data` is one variable shared by all the handlers.
ReceiveBytesSharedData(c, m) ==
    \/ /\ m.type = "websocket.disconnect"
       /\ pc' = [pc EXCEPT ![c] = "disconnected"]
       /\ UNCHANGED <<data, err>>
    \/ /\ m.type = "websocket.receive"
       /\ "bytes" \in DOMAIN m
       /\ data' = [d \in Conns |-> Some(m.bytes)]
       /\ pc' = [pc EXCEPT ![c] = "process"]
       /\ UNCHANGED err
    \/ /\ m.type = "websocket.receive"
       /\ "bytes" \notin DOMAIN m
       /\ err' = [err EXCEPT ![c] = KeyErrorMsg]
       /\ pc' = [pc EXCEPT ![c] = "error_send"]
       /\ UNCHANGED data

\* Line 72: data = await websocket.receive_bytes(), for the next event m.
\* A disconnect event raises WebSocketDisconnect (lines 81-83: print, then
\* the handler returns).  A binary message returns its bytes.  A text message
\* has no bytes: receive_bytes raises KeyError (caught at line 84), or
\* returns None where the server delivers bytes = None.
ReceiveBytes(c, m) ==
    \/ /\ m.type = "websocket.disconnect"
       /\ pc' = [pc EXCEPT ![c] = "disconnected"]
       /\ UNCHANGED <<data, err>>
    \/ /\ m.type = "websocket.receive"
       /\ "bytes" \in DOMAIN m
       /\ data' = [data EXCEPT ![c] = Some(m.bytes)]
       /\ pc' = [pc EXCEPT ![c] = "process"]
       /\ UNCHANGED err
    \/ /\ m.type = "websocket.receive"
       /\ "bytes" \notin DOMAIN m
       /\ \/ /\ err' = [err EXCEPT ![c] = KeyErrorMsg]
             /\ pc' = [pc EXCEPT ![c] = "error_send"]
             /\ UNCHANGED data
          \/ /\ data' = [data EXCEPT ![c] = None]
             /\ pc' = [pc EXCEPT ![c] = "process"]
             /\ UNCHANGED err

\* Lines 70-72: the loop's blocking read; it waits while no event is there.
Receive(c) ==
    /\ pc[c] = "receive"
    /\ inq[c] # << >>
    /\ ReceiveBytes(c, Head(inq[c]))
    /\ inq' = [inq EXCEPT ![c] = Tail(@)]
    /\ UNCHANGED <<csent, writes, crecv, link>>
    /\ UNCHANGED http

\* Lines 76-80 with a size check: a chunk over max-chunk-size is an error.
AcknowledgeRejectsOversized(c) ==
    /\ pc[c] = "process"
    /\ data[c].some
    /\ IF Len(data[c].val) > MaxChunkSize
       THEN /\ err' = [err EXCEPT ![c] = KeyErrorMsg]
            /\ pc' = [pc EXCEPT ![c] = "error_send"]
            /\ UNCHANGED writes
       ELSE /\ Write(c, TextFrame(ResponseMsg(data[c].val)))
            /\ pc' = [pc EXCEPT ![c] = IF Writable(c) THEN "receive" ELSE "disconnected"]
            /\ UNCHANGED err
    /\ UNCHANGED <<data, inq, csent, crecv, link>>
    /\ UNCHANGED http

\* Lines 76-80 with an emptiness check: an empty chunk is an error.
AcknowledgeRejectsEmpty(c) ==
    /\ pc[c] = "process"
    /\ data[c].some
    /\ IF data[c].val = << >>
       THEN /\ err' = [err EXCEPT ![c] = KeyErrorMsg]
            /\ pc' = [pc EXCEPT ![c] = "error_send"]
            /\ UNCHANGED writes
       ELSE /\ Write(c, TextFrame(ResponseMsg(data[c].val)))
            /\ pc' = [pc EXCEPT ![c] = IF Writable(c) THEN "receive" ELSE "disconnected"]
            /\ UNCHANGED err
    /\ UNCHANGED <<data, inq, csent, crecv, link>>
    /\ UNCHANGED http

\* A bug of line 80: the acknowledgment is written twice.
AcknowledgeTwice(c) ==
    /\ pc[c] = "process"
    /\ data[c].some
    /\ writes' = [writes EXCEPT ![c] =
                      @ \o << [frame |-> TextFrame(ResponseMsg(data[c].val)), ok |-> Writable(c)],
                              [frame |-> TextFrame(ResponseMsg(data[c].val)), ok |-> Writable(c)] >>]
    /\ pc' = [pc EXCEPT ![c] = IF Writable(c) THEN "receive" ELSE "disconnected"]
    /\ UNCHANGED <<data, err, inq, csent, crecv, link>>
    /\ UNCHANGED http

\* A bug of lines 70-80: no loop, the handler returns after one
\* acknowledgment.
AcknowledgeOnce(c) ==
    /\ pc[c] = "process"
    /\ data[c].some
    /\ Write(c, TextFrame(ResponseMsg(data[c].val)))
    /\ pc' = [pc EXCEPT ![c] = "disconnected"]
    /\ UNCHANGED <<data, err, inq, csent, crecv, link>>
    /\ UNCHANGED http

\* A bug of lines 72-80: an empty chunk is skipped without acknowledgment.
AcknowledgeSkipsEmpty(c) ==
    /\ pc[c] = "process"
    /\ data[c].some
    /\ IF data[c].val = << >>
       THEN UNCHANGED writes
       ELSE Write(c, TextFrame(ResponseMsg(data[c].val)))
    /\ pc' = [pc EXCEPT ![c] = IF Writable(c) THEN "receive" ELSE "disconnected"]
    /\ UNCHANGED <<data, err, inq, csent, crecv, link>>
    /\ UNCHANGED http

\* Lines 76-80: chunk_size, response_msg, await websocket.send_text(...).
\* len(None) raises TypeError (line 84).  A write that fails raises
\* WebSocketDisconnect (lines 81-83) or another exception (line 84).
Acknowledge(c) ==
    /\ pc[c] = "process"
    /\ IF ~data[c].some
       THEN /\ err' = [err EXCEPT ![c] = TypeErrorMsg]
            /\ pc' = [pc EXCEPT ![c] = "error_send"]
            /\ UNCHANGED writes
       ELSE /\ Write(c, TextFrame(ResponseMsg(data[c].val)))
            /\ IF Writable(c)
               THEN /\ pc' = [pc EXCEPT ![c] = "receive"]
                    /\ UNCHANGED err
               ELSE \E f \in SendFailures :
                    IF f = "WebSocketDisconnect"
                    THEN /\ pc' = [pc EXCEPT ![c] = "disconnected"]
                         /\ UNCHANGED err
                    ELSE /\ err' = [err EXCEPT ![c] = SendErrorMsg]
                         /\ pc' = [pc EXCEPT ![c] = "error_send"]
    /\ UNCHANGED <<data, inq, csent, crecv, link>>
    /\ UNCHANGED http

\* Lines 86-88 made recoverable: after the error text the loop goes on.
SendErrorContinues(c) ==
    /\ pc[c] = "error_send"
    /\ Write(c, TextFrame(ErrorMsg(err[c])))
    /\ pc' = [pc EXCEPT ![c] = IF Writable(c) THEN "receive" ELSE "raised"]
    /\ UNCHANGED <<data, err, inq, csent, crecv, link>>
    /\ UNCHANGED http

\* A bug of lines 86-88: the handler returns after the error text, without
\* the close.
SendErrorSkipsClose(c) ==
    /\ pc[c] = "error_send"
    /\ Write(c, TextFrame(ErrorMsg(err[c])))
    /\ pc' = [pc EXCEPT ![c] = IF Writable(c) THEN "closed" ELSE "raised"]
    /\ UNCHANGED <<data, err, inq, csent, crecv, link>>
    /\ UNCHANGED http

\* Lines 86-87: error_msg, await websocket.send_text(error_msg).  The call
\* is inside the except clause: a write that fails leaves the handler with
\* the exception.
SendError(c) ==
    /\ pc[c] = "error_send"
    /\ Write(c, TextFrame(ErrorMsg(err[c])))
    /\ pc' = [pc EXCEPT ![c] = IF Writable(c) THEN "error_close" ELSE "raised"]
    /\ UNCHANGED <<data, err, inq, csent, crecv, link>>
    /\ UNCHANGED http

\* A bug of line 88: the close carries the code of a normal closure.
CloseOnErrorNormalCode(c) ==
    /\ pc[c] = "error_close"
    /\ Write(c, CloseFrame(1000, ErrorCloseReason))
    /\ pc' = [pc EXCEPT ![c] = IF Writable(c) THEN "closed" ELSE "raised"]
    /\ link' = [link EXCEPT ![c] = IF Writable(c) THEN "server_closed" ELSE @]
    /\ UNCHANGED <<data, err, inq, csent, crecv>>
    /\ UNCHANGED http

\* A bug of line 88: the connection is closed twice.
CloseOnErrorTwice(c) ==
    /\ pc[c] = "error_close"
    /\ writes' = [writes EXCEPT ![c] =
                      @ \o << [frame |-> ErrorClose, ok |-> Writable(c)],
                              [frame |-> ErrorClose, ok |-> FALSE] >>]
    /\ pc' = [pc EXCEPT ![c] = "raised"]
    /\ link' = [link EXCEPT ![c] = IF Writable(c) THEN "server_closed" ELSE @]
    /\ UNCHANGED <<data, err, inq, csent, crecv>>
    /\ UNCHANGED http

\* Line 88: await websocket.close(code=1011, reason=...), then the handler
\* returns.  A close that fails leaves the handler with the exception.
CloseOnError(c) ==
    /\ pc[c] = "error_close"
    /\ Write(c, ErrorClose)
    /\ pc' = [pc EXCEPT ![c] = IF Writable(c) THEN "closed" ELSE "raised"]
    /\ link' = [link EXCEPT ![c] = IF Writable(c) THEN "server_closed" ELSE @]
    /\ UNCHANGED <<data, err, inq, csent, crecv>>
    /\ UNCHANGED http

-----------------------------------------------------------------------------
(* The HTTP routes: main.py lines 23-50 *)

\* Lines 23-39: get_home_page returns the HTML page (200).
HomePage ==
    "<html><head><title>Voice Interaction POC</title></head><body>"
    \o "<h1>WebSocket Voice Interaction POC</h1>"
    \o "<p>Use a WebSocket client to connect to <code>ws://localhost:8000/ws</code>.</p>"
    \o "<p>Send binary (audio) data frames and the server will respond with acknowledgments.</p>"
    \o "</body></html>"

HomePageResponse == [path |-> "/", status |-> 200, content |-> HomePage]

\* A bug of line 50: the exception is built but not raised, the route
\* returns None (200, null).
HandshakeInfoNotRaised == [path |-> "/ws", status |-> 200, content |-> "null"]

\* Line 50: raise HTTPException(status_code=400, detail=...).
HandshakeInfoResponse ==
    [path |-> "/ws", status |-> 400, content |-> "Use WebSocket at ws://localhost:8000/ws"]

\* Lines 23-24: GET /.
GetHomePage ==
    /\ Len(http) < MaxRequests
    /\ http' = Append(http, HomePageResponse)
    /\ UNCHANGED <<pc, data, err, inq, csent, writes, crecv, link>>

\* Lines 42-50: GET /ws without an upgrade.
WebsocketHandshakeInfo ==
    /\ Len(http) < MaxRequests
    /\ http' = Append(http, HandshakeInfoResponse)
    /\ UNCHANGED <<pc, data, err, inq, csent, writes, crecv, link>>

-----------------------------------------------------------------------------
(* Specification *)

Step(c) ==
    \/ ClientConnect(c)
    \/ \E b \in Payloads : ClientSendBytes(c, b)
    \/ ClientSendText(c)
    \/ ClientRecv(c)
    \/ ClientClose(c)
    \/ ClientAbort(c)
    \/ Accept(c)
    \/ SendWelcome(c)
    \/ Receive(c)
    \/ Acknowledge(c)
    \/ SendError(c)
    \/ CloseOnError(c)

\* One connection, and the plain HTTP requests.
Next ==
    \/ \E c \in Solo : Step(c)
    \/ GetHomePage
    \/ WebsocketHandshakeInfo

Spec == Init /\ [][Next]_vars

\* The steps of the handler of c: the event loop runs a coroutine that is
\* ready (its awaited call can complete) within finite time.
HandlerStep(c) ==
    \/ Accept(c)
    \/ SendWelcome(c)
    \/ Receive(c)
    \/ Acknowledge(c)
    \/ SendError(c)
    \/ CloseOnError(c)

FairSpec == Spec /\ \A c \in Solo : WF_vars(HandlerStep(c))

\* Two connections served at once: the steps of Step that the server takes
\* part in (what a client has read of its frames changes nothing for the
\* server), without the HTTP requests.
ServedStep(c) ==
    \/ ClientConnect(c)
    \/ \E b \in Payloads : Len(csent[c]) < MaxServedFrames /\ ClientSendBytes(c, b)
    \/ Len(csent[c]) < MaxServedFrames /\ ClientSendText(c)
    \/ ClientClose(c)
    \/ ClientAbort(c)
    \/ Accept(c)
    \/ SendWelcome(c)
    \/ Receive(c)
    \/ Acknowledge(c)
    \/ SendError(c)
    \/ CloseOnError(c)

NextAll == \E c \in Conns : ServedStep(c)

SpecAll == Init /\ [][NextAll]_vars

-----------------------------------------------------------------------------
(* Observations the properties are stated on *)

Last(s) == s[Len(s)]

\* The data frames of csent[c] the handler has received: all but those
\* still waiting in inq[c].
Consumed(c) ==
    LET waiting == SelectSeq(inq[c], LAMBDA m : m.type = "websocket.receive")
    IN  SubSeq(csent[c], 1, Len(csent[c]) - Len(waiting))

\* The payloads of the binary frames among a sequence of data frames.
BinaryPayloads(frames) ==
    LET bin == SelectSeq(frames, LAMBDA m : "bytes" \in DOMAIN m)
    IN  [k \in 1..Len(bin) |-> bin[k].bytes]

\* Whether some frame of a sequence of data frames is a text frame.
HasText(frames) == \E k \in 1..Len(frames) : "bytes" \notin DOMAIN frames[k]

\* The longest payload a client of the model sends.
MaxPayloadLen == CHOOSE n \in {Len(b) : b \in Payloads} : \A b \in Payloads : Len(b) <= n

\* The acknowledgment of the wire protocol for a payload of n bytes.
ExpectedAck(n) == "Received " \o ToString(n) \o " bytes of audio data."

\* The welcome of the wire protocol.
ExpectedWelcome ==
    TextFrame("Connection established. Send audio data as binary messages.")

IsText(f) == f.type = "websocket.send"
IsClose(f) == f.type = "websocket.close"
IsAck(f) == IsText(f) /\ \E n \in 0..(MaxPayloadLen + 1) : f.text = ExpectedAck(n)
IsError(f) ==
    IsText(f) /\ \E e \in {KeyErrorMsg, TypeErrorMsg, SendErrorMsg} :
                    f.text = "An error occurred: " \o e

\* The texts of the acknowledgments among a sequence of frames.
AckTexts(frames) ==
    LET acks == SelectSeq(frames, IsAck)
    IN  [k \in 1..Len(acks) |-> acks[k].text]

\* The frames the handler has handed to the transport, taken or not.
Attempted(c) == [k \in 1..Len(writes[c]) |-> writes[c][k].frame]

\* The frames the client has read.
ClientRead(c) == SubSeq(Sent(c), 1, crecv[c])

-----------------------------------------------------------------------------
(* C1 *)

\* C1: every binary frame the server receives is answered by exactly one
\* text frame "Received N bytes of audio data.", N the length of that frame:
\* the k-th acknowledgment written reports the length of the k-th binary
\* frame received, an acknowledgment is written only for a frame received,
\* and when the handler waits for the next frame every frame received so
\* far has its acknowledgment.
C1_AckPerFrame ==
    \A c \in Conns :
        LET fr == BinaryPayloads(Consumed(c))
            ak == AckTexts(Sent(c))
        IN  /\ Len(ak) <= Len(fr)
            /\ \A k \in 1..Len(ak) : ak[k] = ExpectedAck(Len(fr[k]))
            /\ pc[c] = "receive" => Len(ak) = Len(fr)
            /\ (pc[c] = "process" /\ data[c].some) => Len(ak) = Len(fr) - 1

\* The run of client.py: 5 bytes, then 3 bytes, each acknowledged.
C1_Witness ==
    \E c \in Conns :
        /\ pc[c] = "receive"
        /\ BinaryPayloads(Consumed(c)) = << <<0, 1, 2, 3, 4>>, <<16, 32, 48>> >>
        /\ Sent(c) = << ExpectedWelcome,
                        TextFrame("Received 5 bytes of audio data."),
                        TextFrame("Received 3 bytes of audio data.") >>

-----------------------------------------------------------------------------
(* C2 *)

\* C2 as amended: for the binary frames a client sends on one connection the
\* client reads the acknowledgments in the order of the frames, the k-th
\* reporting the byte length of the k-th frame and nothing else (the text is
\* a function of the length alone: no sequence number), and exactly N of
\* them once N binary frames, and no text frame, have been sent, handled
\* and read.
C2_AcksInOrderByLength ==
    \A c \in Conns :
        LET fr == BinaryPayloads(csent[c])
            ak == AckTexts(ClientRead(c))
        IN  /\ Len(ak) <= Len(fr)
            /\ \A k \in 1..Len(ak) : ak[k] = ExpectedAck(Len(fr[k]))
            /\ ( /\ ~HasText(csent[c])
                 /\ pc[c] = "receive"
                 /\ inq[c] = << >>
                 /\ crecv[c] = Len(writes[c]) ) => Len(ak) = Len(fr)

\* Two frames of the same length: the client reads the same text twice.
C2_Witness ==
    \E c \in Conns :
        /\ crecv[c] = 3
        /\ csent[c] = << BytesEvent(<<16, 32, 48>>), BytesEvent(<<16, 32, 48>>) >>
        /\ AckTexts(ClientRead(c)) = << "Received 3 bytes of audio data.",
                                        "Received 3 bytes of audio data." >>

\* C2 as stated: as above, and each acknowledgment carries its sequence
\* number 1, 2, ...: whatever the format, a text that carries its sequence
\* number differs from every other acknowledgment of the connection.
C2_AcksCarrySequenceNumbers ==
    /\ C2_AcksInOrderByLength
    /\ \A c \in Conns :
           LET ak == AckTexts(ClientRead(c))
           IN  \A i, j \in 1..Len(ak) : i # j => ak[i] # ak[j]

-----------------------------------------------------------------------------
(* C3 *)

\* C3: the first frame the handler writes on a connection is the welcome
\* text; it is written once, before any frame of the client is received and
\* before any other write, and the handler is past it whenever it reads,
\* acknowledges or handles an error.
C3_WelcomeFirstOnce ==
    \A c \in Conns :
        /\ pc[c] \in {"idle", "accept", "welcome"} =>
               writes[c] = << >> /\ Consumed(c) = << >>
        /\ writes[c] # << >> => writes[c][1].frame = ExpectedWelcome
        /\ \A k \in 2..Len(writes[c]) : writes[c][k].frame # ExpectedWelcome
        /\ pc[c] \in {"receive", "process", "error_send", "error_close",
                      "disconnected", "closed"} =>
               Sent(c) # << >> /\ Sent(c)[1] = ExpectedWelcome

\* A frame has been read and the welcome is all the server has written.
C3_Witness ==
    \E c \in Conns :
        /\ pc[c] = "process"
        /\ Consumed(c) # << >>
        /\ Attempted(c) = << ExpectedWelcome >>
        /\ Sent(c) = << ExpectedWelcome >>

-----------------------------------------------------------------------------
(* C4 *)

\* C4: on an error inside the loop the handler writes the text frame
\* "An error occurred: {message}" and then closes with code 1011 and reason
\* "Internal server error", in that order; the close is the last thing the
\* handler does on the connection: no write follows it and the handler has
\* left the loop, so it reads and acknowledges nothing more.
C4_ErrorThenClose ==
    \A c \in Conns :
        /\ \A k \in 1..Len(writes[c]) :
               IsClose(writes[c][k].frame) =>
                   /\ k = Len(writes[c])
                   /\ writes[c][k].frame =
                          [type |-> "websocket.close", code |-> 1011,
                           reason |-> "Internal server error"]
                   /\ k > 1
                   /\ writes[c][k - 1] =
                          [frame |-> TextFrame("An error occurred: " \o err[c]),
                           ok |-> TRUE]
                   /\ IsError(writes[c][k - 1].frame)
                   /\ pc[c] \in {"closed", "raised"}
        /\ pc[c] = "closed" =>
               /\ writes[c] # << >>
               /\ IsClose(Last(writes[c]).frame)
               /\ Last(writes[c]).ok
        /\ pc[c] = "error_close" =>
               Last(writes[c]) =
                   [frame |-> TextFrame("An error occurred: " \o err[c]), ok |-> TRUE]

\* A text frame made receive_bytes raise KeyError: the error text, then the
\* close, with a later frame of the client left unread.
C4_Witness ==
    \E c \in Conns :
        /\ pc[c] = "closed"
        /\ inq[c] # << >>
        /\ Sent(c) = << ExpectedWelcome,
                        TextFrame("An error occurred: 'bytes'"),
                        CloseFrame(1011, "Internal server error") >>

-----------------------------------------------------------------------------
(* C5 *)

\* The handler has received the disconnect event of the client's close frame.
GracefulDisconnectObserved(c) ==
    /\ link[c] = "client_closed"
    /\ inq[c] = << >>

\* C5: once the handler has observed a graceful disconnect it calls neither
\* send_text nor close on that connection: no acknowledgment, no error text
\* and no close frame, delivered or not.
C5_NoWriteAfterDisconnect ==
    [][\A c \in Conns : GracefulDisconnectObserved(c) => writes'[c] = writes[c]]_vars

\* The client closed after being acknowledged and the handler has seen it.
C5_Witness ==
    \E c \in Conns :
        /\ GracefulDisconnectObserved(c)
        /\ pc[c] = "disconnected"
        /\ Len(AckTexts(Sent(c))) >= 1

-----------------------------------------------------------------------------
(* C6 *)

\* The acknowledgments among the frames the handler has handed to the
\* transport.
AckAttempts(c) == AckTexts(Attempted(c))

\* C6 as stated: a binary frame longer than max-chunk-size never reaches
\* the processing step and is never acknowledged as a chunk.
C6_OversizedRejected ==
    \A c \in Conns :
        LET fr == BinaryPayloads(Consumed(c))
        IN  /\ \A k \in 1..Len(AckAttempts(c)) : Len(fr[k]) <= MaxChunkSize
            /\ (pc[c] = "process" /\ data[c].some) => Len(data[c].val) <= MaxChunkSize

\* C6 as amended: the handler configures no max-chunk-size: a binary frame
\* longer than the spec's limit is neither rejected nor truncated.  It
\* reaches the processing step whole and the handler acknowledges it with its
\* full length; and the handler writes nothing but the welcome, the
\* acknowledgments, the error text of an exception and the close after it
\* (no protocol-violation message).
C6_OversizedAcknowledged ==
    \A c \in Conns :
        LET fr == BinaryPayloads(Consumed(c))
            at == AckAttempts(c)
        IN  /\ \A k \in 1..Len(fr) :
                   Len(fr[k]) > MaxChunkSize =>
                       IF k <= Len(at)
                       THEN at[k] = ExpectedAck(Len(fr[k]))
                       ELSE /\ k = Len(fr)
                            /\ pc[c] = "process"
                            /\ data[c] = Some(fr[k])
            /\ \A k \in 1..Len(writes[c]) :
                   LET f == writes[c][k].frame
                   IN  f = ExpectedWelcome \/ IsAck(f) \/ IsError(f) \/ IsClose(f)

\* A frame of 5 bytes, over the limit, acknowledged as "Received 5 bytes",
\* and the handler back at its read.
C6_Witness ==
    \E c \in Conns :
        /\ Len(<<0, 1, 2, 3, 4>>) > MaxChunkSize
        /\ Consumed(c) = << BytesEvent(<<0, 1, 2, 3, 4>>) >>
        /\ pc[c] = "receive"
        /\ Sent(c) = << ExpectedWelcome, TextFrame("Received 5 bytes of audio data.") >>

-----------------------------------------------------------------------------
(* C7 *)

\* C7: when the client disappears without a close frame after the welcome,
\* also while an acknowledgment or an error text is being written, the
\* handler ends like on a disconnect: no exception leaves it.
C7_AbruptDisconnectSilent ==
    \A c \in Conns :
        (link[c] = "reset" /\ Sent(c) # << >>) => pc[c] # "raised"

-----------------------------------------------------------------------------
(* C8 *)

\* C8: a text frame received from the client is ignored: the handler stays
\* in its loop and hands neither an error text nor a close to the transport.
C8_ControlFrameIgnored ==
    \A c \in Conns :
        HasText(Consumed(c)) =>
            /\ pc[c] \in {"receive", "process", "disconnected"}
            /\ \A k \in 1..Len(writes[c]) :
                   ~IsError(writes[c][k].frame) /\ ~IsClose(writes[c][k].frame)

-----------------------------------------------------------------------------
(* C9 *)

\* The places of the error texts among the handler's writes.
ErrorWrites(c) == {k \in 1..Len(writes[c]) : IsError(writes[c][k].frame)}

\* C9 as stated: a single failure is recoverable: once its error text is
\* written the handler is back in its loop.
C9_SingleFailureRecoverable ==
    \A c \in Conns :
        (Cardinality(ErrorWrites(c)) = 1 /\ Last(writes[c]).ok) =>
            pc[c] \in {"receive", "process"}

\* C9 as amended: the first failure inside the loop ends the session.  The
\* handler writes at most one error text on a connection; after it the
\* handler is out of the loop (about to close, returned, or left with an
\* exception), so it receives no later frame, and the only write after the
\* error text is the close: no acknowledgment.  There is no threshold.
C9_FirstFailureEndsSession ==
    \A c \in Conns :
        /\ Cardinality(ErrorWrites(c)) <= 1
        /\ \A k \in ErrorWrites(c) :
               /\ pc[c] \in {"error_close", "closed", "raised"}
               /\ \A j \in (k + 1)..Len(writes[c]) : IsClose(writes[c][j].frame)

\* One failure, the connection closed by the server, and a binary frame the
\* client sent after the failing one still unread.
C9_Witness ==
    \E c \in Conns :
        /\ Cardinality(ErrorWrites(c)) = 1
        /\ pc[c] = "closed"
        /\ inq[c] # << >>
        /\ "bytes" \in DOMAIN Head(inq[c])
        /\ AckAttempts(c) = << >>

-----------------------------------------------------------------------------
(* C11 *)

\* The places of the close calls among the handler's writes.
CloseCalls(c) == {k \in 1..Len(writes[c]) : IsClose(writes[c][k].frame)}

\* C11 as stated: every way out of the loop closes the connection exactly
\* once: a handler that has returned, after a disconnect or after an error,
\* has called close once.
C11_CloseOnEveryExit ==
    \A c \in Conns :
        pc[c] \in {"disconnected", "closed"} => Cardinality(CloseCalls(c)) = 1

\* C11 as amended: the handler calls close at most once on a connection:
\* exactly once when it returns through the error path, and not at all while
\* it is in the loop or when it returns through the disconnect path (the
\* code keeps no registry to remove the session from).
C11_CloseOnErrorExitOnly ==
    \A c \in Conns :
        /\ Cardinality(CloseCalls(c)) <= 1
        /\ pc[c] = "closed" => Cardinality(CloseCalls(c)) = 1
        /\ pc[c] \in {"idle", "accept", "welcome", "receive", "process",
                      "error_send", "error_close", "disconnected"} =>
               CloseCalls(c) = {}

\* The handler returned through the disconnect path, after an
\* acknowledgment, without a close.
C11_Witness ==
    \E c \in Conns :
        /\ pc[c] = "disconnected"
        /\ link[c] = "client_closed"
        /\ CloseCalls(c) = {}
        /\ Len(AckAttempts(c)) = 1

-----------------------------------------------------------------------------
(* C13 *)

\* C13: a plain GET of /ws always fails with status 400, a client error,
\* and the detail "Use WebSocket at ws://localhost:8000/ws"; the request
\* starts no handler and writes nothing on any connection.
C13_PlainGetRejected ==
    /\ [](\A k \in 1..Len(http) :
              http[k].path = "/ws" =>
                  /\ http[k].status = 400
                  /\ http[k].status \in 400..499
                  /\ http[k].content = "Use WebSocket at ws://localhost:8000/ws")
    /\ [][http' # http => UNCHANGED <<pc, data, err, inq, csent, writes, crecv, link>>]_vars

\* A plain GET of /ws answered while a connection is being served.
C13_Witness ==
    /\ \E k \in 1..Len(http) : http[k].path = "/ws" /\ http[k].status = 400
    /\ \E c \in Conns : pc[c] = "receive"

-----------------------------------------------------------------------------
(* C14 *)

\* The lifecycle state of a connection, read from where its handler stands:
\* 0 none, 1 Connecting (lines 66-67), 2 Active (the loop, lines 70-80),
\* 3 Draining (the error path, lines 86-88), 4 Closed (the handler is over).
Phase(c) ==
    CASE pc[c] = "idle" -> 0
      [] pc[c] \in {"accept", "welcome"} -> 1
      [] pc[c] \in {"receive", "process"} -> 2
      [] pc[c] \in {"error_send", "error_close"} -> 3
      [] pc[c] \in {"disconnected", "closed", "raised"} -> 4

\* C14: the lifecycle of a connection only moves forward, and a handler that
\* has left the loop, through the disconnect or the error path, receives no
\* further event and writes no further acknowledgment.
C14_LifecycleForward ==
    [][\A c \in Conns :
           /\ Phase(c)' >= Phase(c)
           /\ Phase(c) >= 3 =>
                  /\ Consumed(c)' = Consumed(c)
                  /\ Len(inq'[c]) >= Len(inq[c])
                  /\ AckAttempts(c)' = AckAttempts(c)]_vars

\* The handler is over, after a write that failed, with a frame of the
\* client left unread.
C14_Witness ==
    \E c \in Conns :
        /\ pc[c] = "disconnected"
        /\ Len(Consumed(c)) < Len(csent[c])
        /\ Phase(c) = 4

-----------------------------------------------------------------------------
(* C15 *)

\* C15: a binary frame of zero bytes is a chunk like any other: the handler
\* receives it as b"", acknowledges it on an open connection with
\* "Received 0 bytes of audio data." and is back at its read.
C15_EmptyFrameAcknowledged ==
    [][\A c \in Conns :
           /\ ( /\ pc[c] = "receive"
                /\ pc'[c] # pc[c]
                /\ Head(inq[c]) = BytesEvent(<< >>) ) =>
                  pc'[c] = "process" /\ data'[c] = Some(<< >>)
           /\ ( /\ pc[c] = "process"
                /\ pc'[c] # pc[c] \/ writes'[c] # writes[c]
                /\ data[c] = Some(<< >>)
                /\ link[c] = "open" ) =>
                  /\ writes'[c] =
                         Append(writes[c],
                                [frame |-> TextFrame("Received 0 bytes of audio data."),
                                 ok |-> TRUE])
                  /\ pc'[c] = "receive"]_vars

\* An empty frame acknowledged, then a frame of 3 bytes acknowledged.
C15_Witness ==
    \E c \in Conns :
        /\ Consumed(c) = << BytesEvent(<< >>), BytesEvent(<<16, 32, 48>>) >>
        /\ Sent(c) = << ExpectedWelcome,
                        TextFrame("Received 0 bytes of audio data."),
                        TextFrame("Received 3 bytes of audio data.") >>

-----------------------------------------------------------------------------
(* C16 *)

\* Binary frames received, and acknowledgments sent, on a connection.
NReceived(c) == Len(BinaryPayloads(Consumed(c)))
NAcked(c) == Len(AckTexts(Sent(c)))

\* C16: receive and acknowledge alternate: the acknowledgments sent are as
\* many as the binary frames received, or one fewer; a frame is received
\* only when every earlier one has its acknowledgment sent, and an
\* acknowledgment is sent only for the one frame that waits for it.
C16_ReceiveAckAlternate ==
    /\ [](\A c \in Conns : NAcked(c) \in {NReceived(c), NReceived(c) - 1})
    /\ [][\A c \in Conns :
              /\ NReceived(c)' # NReceived(c) =>
                     NAcked(c) = NReceived(c) /\ NReceived(c)' = NReceived(c) + 1
              /\ NAcked(c)' # NAcked(c) =>
                     NAcked(c) = NReceived(c) - 1 /\ NAcked(c)' = NReceived(c)]_vars

\* The second frame received, the first one acknowledged.
C16_Witness ==
    \E c \in Conns :
        /\ pc[c] = "process"
        /\ NReceived(c) = 2
        /\ NAcked(c) = 1

-----------------------------------------------------------------------------
(* C18 *)

\* C18: the handler closes a connection only on the error path: a close
\* call carries code 1011, there is at most one, exactly one error text was
\* written on the connection before it and it comes right after that text;
\* without an error, in the loop or after a disconnect, there is no close.
C18_CloseOnlyAfterError ==
    \A c \in Conns :
        /\ Cardinality(CloseCalls(c)) <= 1
        /\ \A k \in CloseCalls(c) :
               /\ writes[c][k].frame.code = 1011
               /\ ErrorWrites(c) = {k - 1}
        /\ ErrorWrites(c) = {} => CloseCalls(c) = {}
        /\ GracefulDisconnectObserved(c) => CloseCalls(c) = {}

\* A text frame after an acknowledged chunk, delivered with bytes = None:
\* the TypeError text, then the close.
C18_Witness ==
    \E c \in Conns :
        /\ pc[c] = "closed"
        /\ Sent(c) = << ExpectedWelcome,
                        TextFrame("Received 3 bytes of audio data."),
                        TextFrame("An error occurred: object of type 'NoneType' has no len()"),
                        CloseFrame(1011, "Internal server error") >>

-----------------------------------------------------------------------------
(* C17 *)

\* C17: under fair scheduling of the handler, a binary frame received is
\* acknowledged and the handler is back at its read, unless the connection
\* stops being open; and the handler leaves the loop only when receive_bytes
\* meets a disconnect event or an exception is raised (a message without
\* bytes, len(None), a write that fails), never by itself.
C17_EveryFrameAcknowledged ==
    /\ \A c \in Conns :
           (pc[c] = "process" /\ data[c].some) ~>
               \/ link[c] # "open"
               \/ pc[c] = "receive" /\ NAcked(c) = NReceived(c)
    /\ [][\A c \in Conns :
              (Phase(c) = 2 /\ Phase(c)' # 2) =>
                  \/ /\ pc[c] = "receive"
                     /\ Head(inq[c]).type = "websocket.disconnect"
                     /\ pc'[c] = "disconnected"
                  \/ /\ pc[c] = "receive"
                     /\ Head(inq[c]).type = "websocket.receive"
                     /\ "bytes" \notin DOMAIN Head(inq[c])
                     /\ pc'[c] = "error_send"
                  \/ /\ pc[c] = "process"
                     /\ ~data[c].some
                     /\ pc'[c] = "error_send"
                  \/ /\ pc[c] = "process"
                     /\ link[c] # "open"
                     /\ pc'[c] \in {"disconnected", "error_send"}]_vars

\* Two frames received and acknowledged, the handler waiting for the next.
C17_Witness ==
    \E c \in Conns :
        /\ pc[c] = "receive"
        /\ link[c] = "open"
        /\ inq[c] = << >>
        /\ NReceived(c) = 2
        /\ NAcked(c) = 2

-----------------------------------------------------------------------------
(* C12 *)

\* All the state of one connection.
View(c) == <<pc[c], data[c], err[c], inq[c], csent[c], writes[c], crecv[c], link[c]>>

\* C12: connections served at once are independent, whatever the
\* interleaving.  The acknowledgments written on a connection are those of
\* the binary frames received on it, in order; whether a handler can take
\* its next step depends on its own connection alone; and a step of one
\* connection (a frame, a disconnect, an error, a close) leaves every other
\* connection as it was.
C12_SessionsIndependent ==
    /\ [](\A c \in Conns :
              LET fr == BinaryPayloads(Consumed(c))
                  at == AckAttempts(c)
              IN  /\ Len(at) \in {Len(fr), Len(fr) - 1}
                  /\ \A k \in 1..Len(at) : at[k] = ExpectedAck(Len(fr[k])))
    /\ [](\A c \in Conns :
              ENABLED HandlerStep(c) <=>
                  \/ pc[c] \in {"welcome", "process", "error_send", "error_close"}
                  \/ pc[c] = "accept" /\ link[c] = "handshake"
                  \/ pc[c] = "receive" /\ inq[c] # << >>)
    /\ [][\A c, d \in Conns :
              (c # d /\ View(c)' # View(c)) => View(d)' = View(d)]_vars

\* One connection closed on an error while the other one, served in the
\* same run, has its frame acknowledged and waits for the next.
C12_Witness ==
    \E c, d \in Conns :
        /\ c # d
        /\ pc[d] = "closed"
        /\ pc[c] = "receive"
        /\ link[c] = "open"
        /\ AckAttempts(c) = << "Received 5 bytes of audio data." >>

====
